---- MODULE Spec2Model ----
(***************************************************************************)
(* Model of plugins/audio-notifications/hooks/audio_notification_hook.py:  *)
(* one run of main(), from loading the user config to the process exit.    *)
(* Strings are sequences of one-character strings; JSON / Python values    *)
(* are tagged records.                                                     *)
(***************************************************************************)
EXTENDS Integers, Sequences, FiniteSets, TLC

\* ---------------------------------------------------------------- bounds
MaxCmdLen == 3
MaxMsgLen == 3

\* ------------------------------------------------------- strings, values
StrsUpTo(A, n) == UNION { [1..k -> A] : k \in 0..n }

CmdAlphabet == {"a", " ", "'", "\"", "\\"}
MsgAlphabet == {"a", " "}

JNull == [t |-> "null"]
JBool(b) == [t |-> "bool", b |-> b]
JNum == [t |-> "num", n |-> 1]
JStr(s) == [t |-> "str", s |-> s]
JArr == [t |-> "arr"]
JObj(f) == [t |-> "obj", f |-> f]
Absent == [t |-> "absent"]

StrTrue == <<"t", "r", "u", "e">>
Notification == <<"N", "o", "t", "i", "f", "i", "c", "a", "t", "i", "o", "n">>
OtherEvent == <<"S", "t", "o", "p">>

\* a text source (file or stream): missing, unreadable, or its content
Missing == [d |-> "missing"]
Unreadable == [d |-> "unreadable"]
EmptyText == [d |-> "empty"]
Malformed == [d |-> "malformed"]
JsonText(v) == [d |-> "json", v |-> v]

\* python str.strip()
PyWhitespace == {" "}
RECURSIVE LStrip(_)
LStrip(s) == IF s # <<>> /\ Head(s) \in PyWhitespace THEN LStrip(Tail(s)) ELSE s
RECURSIVE RStrip(_)
RStrip(s) ==
    IF s # <<>> /\ s[Len(s)] \in PyWhitespace
    THEN RStrip(SubSeq(s, 1, Len(s) - 1)) ELSE s
Strip_LeftOnly(s) == LStrip(s)

Strip(s) == RStrip(LStrip(s))

\* json.loads(source.read()): raises unless the text is a JSON document
JsonLoads(doc) ==
    IF doc.d = "json" THEN [ok |-> TRUE, v |-> doc.v] ELSE [ok |-> FALSE, v |-> JNull]

IsDict(v) == v.t = "obj"
\* dict.get(key): None when the key is absent
DictGet(o, key) == IF o.f[key].t = "absent" THEN JNull ELSE o.f[key]

\* ------------------------------------------------ detect_default_command
Candidates == << <<"s", "a", "y">>,
                 <<"s", "p", "d", "-", "s", "a", "y">>,
                 <<"e", "s", "p", "e", "a", "k">> >>
CandidateSet == { Candidates[i] : i \in 1..Len(Candidates) }

detect_default_command_LastFirst(onPath) ==
    IF \E i \in 1..Len(Candidates) : Candidates[i] \in onPath
    THEN JStr(Candidates[CHOOSE i \in 1..Len(Candidates) :
                 /\ Candidates[i] \in onPath
                 /\ \A j \in (i + 1)..Len(Candidates) : Candidates[j] \notin onPath])
    ELSE JNull

detect_default_command(onPath) ==
    IF \E i \in 1..Len(Candidates) : Candidates[i] \in onPath
    THEN JStr(Candidates[CHOOSE i \in 1..Len(Candidates) :
                 /\ Candidates[i] \in onPath
                 /\ \A j \in 1..(i - 1) : Candidates[j] \notin onPath])
    ELSE JNull

\* ------------------------------------------------------- get_user_config
DefaultConfig == [audio_off |-> JNull, speech_command |-> JNull]

get_user_config_Truthy(file) ==
    LET parsed == JsonLoads(file) IN
    IF ~parsed.ok THEN DefaultConfig
    ELSE IF ~IsDict(parsed.v) THEN DefaultConfig
    ELSE LET user_audio_off == DictGet(parsed.v, "audio_off")
             user_speech_command == DictGet(parsed.v, "speech_command")
         IN [audio_off |-> IF user_audio_off.t = "bool" THEN user_audio_off
                           ELSE IF user_audio_off.t \in {"num", "str"}
                                THEN JBool(TRUE) ELSE JNull,
             speech_command |-> IF user_speech_command.t = "str"
                                THEN JStr(Strip(user_speech_command.s))
                                ELSE JNull]

get_user_config(file) ==
    LET parsed == JsonLoads(file) IN
    IF ~parsed.ok THEN DefaultConfig
    ELSE IF ~IsDict(parsed.v) THEN DefaultConfig
    ELSE LET user_audio_off == DictGet(parsed.v, "audio_off")
             user_speech_command == DictGet(parsed.v, "speech_command")
         IN [audio_off |-> IF user_audio_off.t = "bool"
                           THEN user_audio_off ELSE JNull,
             speech_command |-> IF user_speech_command.t = "str"
                                THEN JStr(Strip(user_speech_command.s))
                                ELSE JNull]

\* ----------------------------------------------------------- shlex.split
ShWhitespace == {" "}
ShQuotes == {"'", "\""}
ShEscape == {"\\"}
ShEscapedQuotes == {"\""}

ShInit == [state |-> " ", escapedstate |-> " ", token |-> <<>>,
           quoted |-> FALSE, words |-> << >>]

ShEmit(q) ==
    IF q.token # <<>> \/ q.quoted
    THEN [q EXCEPT !.words = Append(q.words, q.token), !.token = <<>>,
                   !.quoted = FALSE]
    ELSE q

\* one character read by shlex.read_token (posix, whitespace_split)
ShStep(q, c) ==
    CASE q.state = " " ->
            IF c \in ShWhitespace THEN ShEmit(q)
            ELSE IF c \in ShEscape
                 THEN [q EXCEPT !.escapedstate = "a", !.state = c]
            ELSE IF c \in ShQuotes THEN [q EXCEPT !.state = c]
            ELSE [q EXCEPT !.token = <<c>>, !.state = "a"]
      [] q.state \in ShQuotes ->
            IF c = q.state THEN [q EXCEPT !.quoted = TRUE, !.state = "a"]
            ELSE IF c \in ShEscape /\ q.state \in ShEscapedQuotes
                 THEN [q EXCEPT !.quoted = TRUE, !.escapedstate = q.state,
                                !.state = c]
            ELSE [q EXCEPT !.quoted = TRUE, !.token = Append(q.token, c)]
      [] q.state \in ShEscape ->
            IF q.escapedstate \in ShQuotes /\ c # q.state /\ c # q.escapedstate
            THEN [q EXCEPT !.token = q.token \o <<q.state, c>>,
                           !.state = q.escapedstate]
            ELSE [q EXCEPT !.token = Append(q.token, c),
                           !.state = q.escapedstate]
      [] OTHER ->
            IF c \in ShWhitespace THEN ShEmit([q EXCEPT !.state = " "])
            ELSE IF c \in ShQuotes THEN [q EXCEPT !.state = c]
            ELSE IF c \in ShEscape
                 THEN [q EXCEPT !.escapedstate = "a", !.state = c]
            ELSE [q EXCEPT !.token = Append(q.token, c)]

RECURSIVE ShScan(_, _, _)
ShScan(s, i, q) == IF i > Len(s) THEN q ELSE ShScan(s, i + 1, ShStep(q, s[i]))

\* shlex.split(s): the words, or ValueError at end of input inside a quote
\* ("No closing quotation") or after an escape ("No escaped character")
ShlexSplit(s) ==
    LET q == ShScan(s, 1, ShInit) IN
    IF q.state \in ShQuotes \/ q.state \in ShEscape
    THEN [ok |-> FALSE, words |-> << >>]
    ELSE [ok |-> TRUE, words |-> ShEmit(q).words]

\* ------------------------------------------------------------ the inputs
AudioOffVals == {Absent, JNull, JBool(TRUE), JBool(FALSE), JNum, JStr(StrTrue)}
SpeechCommandVals ==
    {Absent, JNull, JNum} \cup { JStr(s) : s \in StrsUpTo(CmdAlphabet, MaxCmdLen) }
ConfigFiles ==
    {Missing, Unreadable, EmptyText, Malformed}
    \cup { JsonText(v) : v \in {JNull, JNum, JArr, JStr(StrTrue)} }
    \cup { JsonText(JObj([audio_off |-> a, speech_command |-> c])) :
              a \in AudioOffVals, c \in SpeechCommandVals }

EventNameVals == {Absent, JNull, JNum, JStr(Notification), JStr(OtherEvent)}
MessageVals ==
    {Absent, JNull, JNum} \cup { JStr(s) : s \in StrsUpTo(MsgAlphabet, MaxMsgLen) }
StdinSources ==
    {Unreadable, EmptyText, Malformed}
    \cup { JsonText(v) : v \in {JNull, JNum, JArr, JStr(Notification)} }
    \cup { JsonText(JObj([hook_event_name |-> e, message |-> m])) :
              e \in EventNameVals, m \in MessageVals }

\* how subprocess.run(..., check=True, timeout=10) can end
RunOutcomes == {"returned_zero", "returned_nonzero", "timeout", "launch_error"}

\* ------------------------------------------------------------- the state
VARIABLES
    configFile,      \* content of ~/.claude/audio_notifications.json
    stdin,           \* content of standard input
    pc,              \* position in main()
    user_config,     \* UserConfig returned by get_user_config()
    hook_data,       \* value parsed from stdin
    message,         \* the message, once validated and stripped
    speech_command,  \* line 71: the resolved command string, or None
    speech_words,    \* line 74: the command split into words
    stdinRead,       \* sys.stdin.read() was called
    probed,          \* detect_default_command() was called
    onPath,          \* the candidates shutil.which found, once probed
    invocations,     \* calls of subprocess.run
    run_args,        \* argument list of the call of subprocess.run
    outcome,         \* how the call of subprocess.run ended
    exit_code        \* process exit code; -1 while main() runs

vars == <<configFile, stdin, pc, user_config, hook_data, message,
          speech_command, speech_words, stdinRead, probed, onPath,
          invocations, run_args, outcome, exit_code>>

inputs == <<configFile, stdin>>

Init ==
    /\ configFile \in ConfigFiles
    /\ stdin \in StdinSources
    /\ pc = "get_user_config"
    /\ user_config = DefaultConfig
    /\ hook_data = JNull
    /\ message = JNull
    /\ speech_command = JNull
    /\ speech_words = << >>
    /\ stdinRead = FALSE
    /\ probed = FALSE
    /\ onPath = {}
    /\ invocations = 0
    /\ run_args = << >>
    /\ outcome = "none"
    /\ exit_code = -1

\* sys.exit(code), or main() returning (code 0)
Exit(code) == pc' = "exited" /\ exit_code' = code
Goto(label) == pc' = label /\ exit_code' = exit_code

AudioOff_IsFalse(cfg) == cfg.audio_off.t = "bool" /\ ~cfg.audio_off.b

\* user_config.audio_off is True
AudioOff(cfg) == cfg.audio_off.t = "bool" /\ cfg.audio_off.b

EventMismatch_StringsOnly(hd) ==
    LET e == DictGet(hd, "hook_event_name") IN e.t = "str" /\ e.s # Notification

\* hook_data.get("hook_event_name") != "Notification"
EventMismatch(hd) ==
    LET e == DictGet(hd, "hook_event_name") IN ~(e.t = "str" /\ e.s = Notification)

\* python truth value of an Optional[str]
Truthy(v) == v.t = "str" /\ v.s # <<>>

\* line 50
GetUserConfig ==
    /\ pc = "get_user_config"
    /\ user_config' = get_user_config(configFile)
    /\ Goto("check_audio_off")
    /\ UNCHANGED <<inputs, hook_data, message, speech_command, speech_words,
                   stdinRead, probed, onPath, invocations, run_args, outcome>>

\* lines 51-52
CheckAudioOff ==
    /\ pc = "check_audio_off"
    /\ IF AudioOff(user_config) THEN Exit(0) ELSE Goto("read_stdin")
    /\ UNCHANGED <<inputs, user_config, hook_data, message, speech_command,
                   speech_words, stdinRead, probed, onPath, invocations,
                   run_args, outcome>>

\* lines 54-57
ReadStdin ==
    /\ pc = "read_stdin"
    /\ stdinRead' = TRUE
    /\ LET parsed == JsonLoads(stdin) IN
         IF parsed.ok
         THEN hook_data' = parsed.v /\ Goto("check_dict")
         ELSE hook_data' = hook_data /\ Exit(2)
    /\ UNCHANGED <<inputs, user_config, message, speech_command, speech_words,
                   probed, onPath, invocations, run_args, outcome>>

CheckDict_ExitZero ==
    /\ pc = "check_dict"
    /\ IF IsDict(hook_data) THEN Goto("check_event") ELSE Exit(0)
    /\ UNCHANGED <<inputs, user_config, hook_data, message, speech_command,
                   speech_words, stdinRead, probed, onPath, invocations,
                   run_args, outcome>>

\* lines 58-59
CheckDict ==
    /\ pc = "check_dict"
    /\ IF IsDict(hook_data) THEN Goto("check_event") ELSE Exit(2)
    /\ UNCHANGED <<inputs, user_config, hook_data, message, speech_command,
                   speech_words, stdinRead, probed, onPath, invocations,
                   run_args, outcome>>

\* lines 61-63
CheckEvent ==
    /\ pc = "check_event"
    /\ IF EventMismatch(hook_data) THEN Exit(0) ELSE Goto("check_message")
    /\ UNCHANGED <<inputs, user_config, hook_data, message, speech_command,
                   speech_words, stdinRead, probed, onPath, invocations,
                   run_args, outcome>>

\* lines 65-68
CheckMessage ==
    /\ pc = "check_message"
    /\ LET m == DictGet(hook_data, "message") IN
         IF m.t = "str"
         THEN message' = JStr(Strip(m.s)) /\ Goto("resolve")
         ELSE message' = message /\ Exit(2)
    /\ UNCHANGED <<inputs, user_config, hook_data, speech_command,
                   speech_words, stdinRead, probed, onPath, invocations,
                   run_args, outcome>>

ResolveCommand_EagerProbe ==
    /\ pc = "resolve"
    /\ \E found \in SUBSET CandidateSet :
          /\ probed' = TRUE
          /\ onPath' = found
          /\ speech_command' = IF Truthy(user_config.speech_command)
                               THEN user_config.speech_command
                               ELSE detect_default_command(found)
    /\ IF speech_command'.t = "str" THEN Goto("split") ELSE Exit(2)
    /\ UNCHANGED <<inputs, user_config, hook_data, message, speech_words,
                   stdinRead, invocations, run_args, outcome>>

\* lines 70-73
ResolveCommand ==
    /\ pc = "resolve"
    /\ IF Truthy(user_config.speech_command)
       THEN /\ speech_command' = user_config.speech_command
            /\ UNCHANGED <<probed, onPath>>
       ELSE \E found \in SUBSET CandidateSet :
               /\ probed' = TRUE
               /\ onPath' = found
               /\ speech_command' = detect_default_command(found)
    /\ IF speech_command'.t = "str" THEN Goto("split") ELSE Exit(2)
    /\ UNCHANGED <<inputs, user_config, hook_data, message, speech_words,
                   stdinRead, invocations, run_args, outcome>>

\* line 74; a ValueError of shlex.split is not caught: traceback, exit code 1
SplitCommand ==
    /\ pc = "split"
    /\ LET r == ShlexSplit(speech_command.s) IN
         IF r.ok
         THEN speech_words' = r.words /\ Goto("run")
         ELSE speech_words' = speech_words /\ Exit(1)
    /\ UNCHANGED <<inputs, user_config, hook_data, message, speech_command,
                   stdinRead, probed, onPath, invocations, run_args, outcome>>

RunSpeech_Retry ==
    /\ pc = "run"
    /\ run_args' = speech_words \o <<message.s>>
    /\ \E o \in RunOutcomes :
         /\ outcome' = o
         /\ invocations' = IF o = "returned_zero" THEN 1 ELSE 2
         /\ IF o = "returned_zero" THEN Exit(0) ELSE Exit(2)
    /\ UNCHANGED <<inputs, user_config, hook_data, message, speech_command,
                   speech_words, stdinRead, probed, onPath>>

RunSpeech_Swallow ==
    /\ pc = "run"
    /\ run_args' = speech_words \o <<message.s>>
    /\ invocations' = invocations + 1
    /\ \E o \in RunOutcomes :
         /\ outcome' = o
         /\ Exit(0)
    /\ UNCHANGED <<inputs, user_config, hook_data, message, speech_command,
                   speech_words, stdinRead, probed, onPath>>

\* lines 76-79, then main() returns
RunSpeech ==
    /\ pc = "run"
    /\ run_args' = speech_words \o <<message.s>>
    /\ invocations' = invocations + 1
    /\ \E o \in RunOutcomes :
         /\ outcome' = o
         /\ IF o = "returned_zero" THEN Exit(0) ELSE Exit(2)
    /\ UNCHANGED <<inputs, user_config, hook_data, message, speech_command,
                   speech_words, stdinRead, probed, onPath>>

Next ==
    \/ GetUserConfig
    \/ CheckAudioOff
    \/ ReadStdin
    \/ CheckDict
    \/ CheckEvent
    \/ CheckMessage
    \/ ResolveCommand
    \/ SplitCommand
    \/ RunSpeech

Spec == Init /\ [][Next]_vars

\* ------------------------------------------- the inputs, as the user wrote them
CfgIsObject == configFile.d = "json" /\ configFile.v.t = "obj"
CfgField(k) == IF CfgIsObject THEN configFile.v.f[k] ELSE Absent
CfgAudioOffTrue == CfgField("audio_off").t = "bool" /\ CfgField("audio_off").b
CfgHasCommand ==
    /\ CfgField("speech_command").t = "str"
    /\ \E i \in 1..Len(CfgField("speech_command").s) :
          CfgField("speech_command").s[i] \notin PyWhitespace

InIsJson == stdin.d = "json"
InIsObject == InIsJson /\ stdin.v.t = "obj"
InField(k) == IF InIsObject THEN stdin.v.f[k] ELSE Absent
InIsNotification ==
    /\ InField("hook_event_name").t = "str"
    /\ InField("hook_event_name").s = Notification
InMessageIsString == InField("message").t = "str"

\* t is s without its leading and trailing whitespace
IsTrimOf(s, t) ==
    /\ t = <<>> \/ (t[1] \notin PyWhitespace /\ t[Len(t)] \notin PyWhitespace)
    /\ \E i \in 0..Len(s) :
          /\ i + Len(t) <= Len(s)
          /\ t = SubSeq(s, i + 1, i + Len(t))
          /\ \A k \in 1..Len(s) :
                (k <= i \/ k > i + Len(t)) => s[k] \in PyWhitespace

Exited == pc = "exited"
Invoked == outcome # "none"
\* main() has passed line 71
Resolved == pc \in {"split", "run"} \/ (Exited /\ message.t = "str")

\* C1: every run ends with exit code 0 or 2
C1_ExitCodeZeroOrTwo == Exited => exit_code \in {0, 2}

\* C2: when the config file sets audio_off to true, the run reads no stdin,
\* probes for no command, invokes nothing, and exits 0, whatever stdin holds
C2_AudioOffShortCircuits ==
    CfgAudioOffTrue =>
        /\ ~stdinRead
        /\ ~probed
        /\ invocations = 0
        /\ pc \in {"get_user_config", "check_audio_off", "exited"}
        /\ Exited => exit_code = 0

C2_Witness ==
    /\ CfgAudioOffTrue
    /\ CfgHasCommand
    /\ InIsNotification
    /\ InMessageIsString
    /\ Exited
    /\ exit_code = 0

C2_WitnessMalformed == CfgAudioOffTrue /\ stdin = Malformed /\ Exited /\ exit_code = 0

\* C3: audio not disabled and stdin an object whose hook_event_name is not
\* "Notification": the run exits 0 and invokes nothing, the message and the
\* command are never looked at
C3_IrrelevantEventIsNoOp ==
    (~CfgAudioOffTrue /\ InIsObject /\ ~InIsNotification) =>
        /\ invocations = 0
        /\ ~probed
        /\ pc \in {"get_user_config", "check_audio_off", "read_stdin",
                   "check_dict", "check_event", "exited"}
        /\ Exited => exit_code = 0

C3_Witness ==
    /\ ~CfgAudioOffTrue
    /\ ~CfgHasCommand
    /\ InIsObject
    /\ InField("hook_event_name").t = "num"
    /\ InField("message").t = "absent"
    /\ Exited
    /\ exit_code = 0

\* C4: audio not disabled and stdin not JSON, or not an object, or a
\* Notification whose message is absent or not a string: the run exits 2 and
\* invokes nothing
C4_ProtocolErrorsExitTwo ==
    (/\ ~CfgAudioOffTrue
     /\ \/ ~InIsJson
        \/ ~InIsObject
        \/ InIsNotification /\ ~InMessageIsString) =>
        /\ invocations = 0
        /\ ~probed
        /\ pc \notin {"resolve", "split", "run"}
        /\ Exited => exit_code = 2

C4_Witness ==
    /\ ~CfgAudioOffTrue
    /\ InIsNotification
    /\ InField("message").t = "num"
    /\ Exited
    /\ exit_code = 2

C4_WitnessEmpty == ~CfgAudioOffTrue /\ stdin = EmptyText /\ Exited /\ exit_code = 2

\* C5: at most one invocation per run; a run that reaches the dispatcher
\* invokes once and exits 0 on status zero, 2 on timeout, non-zero status or
\* launch failure, with no second invocation
C5_ExactlyOneInvocation ==
    /\ invocations \in {0, 1}
    /\ pc = "run" => invocations = 0
    /\ Invoked <=> invocations = 1
    /\ Invoked =>
          /\ Exited
          /\ exit_code = IF outcome = "returned_zero" THEN 0 ELSE 2

C5_Witness == Invoked /\ outcome = "timeout" /\ invocations = 1 /\ exit_code = 2

\* C6: the resolved command is the configured speech_command when that is
\* non-empty after trimming (the path is then not probed); otherwise the
\* first of say, spd-say, espeak on the path; with neither, exit 2 and no
\* invocation
C6_CommandPriority ==
    Resolved =>
        IF CfgHasCommand
        THEN /\ ~probed
             /\ speech_command.t = "str"
             /\ IsTrimOf(CfgField("speech_command").s, speech_command.s)
        ELSE /\ probed
             /\ IF Candidates[1] \in onPath
                  THEN speech_command.t = "str" /\ speech_command.s = Candidates[1]
                ELSE IF Candidates[2] \in onPath
                  THEN speech_command.t = "str" /\ speech_command.s = Candidates[2]
                ELSE IF Candidates[3] \in onPath
                  THEN speech_command.t = "str" /\ speech_command.s = Candidates[3]
                ELSE /\ speech_command.t = "null"
                     /\ Exited
                     /\ exit_code = 2
                     /\ invocations = 0

C6_Witness ==
    /\ Resolved
    /\ CfgField("speech_command").t = "str"
    /\ ~CfgHasCommand
    /\ onPath = {Candidates[2], Candidates[3]}
    /\ speech_command.t = "str"
    /\ speech_command.s = Candidates[2]
    /\ Invoked

C6_WitnessNone ==
    Resolved /\ ~CfgHasCommand /\ probed /\ onPath = {} /\ Exited /\ exit_code = 2

\* the words of a command without quotes or escapes: its maximal runs of
\* non-blank characters
IsBlankSplit(s, words) ==
    /\ Len(words) = Cardinality({ i \in 1..Len(s) :
            s[i] \notin ShWhitespace /\ (i = 1 \/ s[i - 1] \in ShWhitespace) })
    /\ \A k \in 1..Len(words) :
          /\ words[k] # <<>>
          /\ \A i \in 1..Len(words[k]) : words[k][i] \notin ShWhitespace
          /\ \E i \in 1..Len(s) :
                /\ words[k] = SubSeq(s, i, i + Len(words[k]) - 1)
                /\ i = 1 \/ s[i - 1] \in ShWhitespace
                /\ i + Len(words[k]) > Len(s) \/ s[i + Len(words[k])] \in ShWhitespace
                /\ Cardinality({ j \in 1..i :
                       s[j] \notin ShWhitespace
                       /\ (j = 1 \/ s[j - 1] \in ShWhitespace) }) = k

\* C7: the argument list of the invocation is the shell-lexical split of the
\* resolved command followed by one argument, the trimmed message (empty
\* when the message is blank)
C7_ArgumentList ==
    Invoked =>
        /\ Len(run_args) >= 1
        /\ IsTrimOf(InField("message").s, run_args[Len(run_args)])
        /\ LET words == SubSeq(run_args, 1, Len(run_args) - 1)
               cmd == speech_command.s
           IN /\ ShlexSplit(cmd).ok
              /\ words = ShlexSplit(cmd).words
              /\ (\A i \in 1..Len(cmd) : cmd[i] \notin ShQuotes \cup ShEscape)
                    => IsBlankSplit(cmd, words)
              /\ cmd = <<"'", " ", "'">> => words = << <<" ">> >>
              /\ cmd = <<"a", "\\", " ">> => words = << <<"a", " ">> >>
              /\ cmd = <<"\"", "\\", "\"">> => words = << <<"\\">> >>
              /\ cmd = <<"'", "'">> => words = << <<>> >>

C7_Witness ==
    /\ Invoked
    /\ InField("message").s = <<" ", "a", " ">>
    /\ speech_command.s = <<"a", " ", "a">>
    /\ run_args = << <<"a">>, <<"a">>, <<"a">> >>

C7_WitnessBlank ==
    Invoked /\ InField("message").s = <<" ", " ">> /\ run_args[Len(run_args)] = <<>>

\* C8: the loaded config is all-defaults unless the file is a JSON object;
\* for an object audio_off is copied only when boolean and speech_command
\* (trimmed) only when a string; a non-boolean audio_off never suppresses
\* speech
C8_ConfigLoader ==
    pc # "get_user_config" =>
        /\ ~CfgIsObject => user_config = DefaultConfig
        /\ IF CfgField("audio_off").t = "bool"
             THEN /\ user_config.audio_off.t = "bool"
                  /\ user_config.audio_off.b = CfgField("audio_off").b
             ELSE user_config.audio_off.t = "null"
        /\ IF CfgField("speech_command").t = "str"
             THEN /\ user_config.speech_command.t = "str"
                  /\ IsTrimOf(CfgField("speech_command").s,
                              user_config.speech_command.s)
             ELSE user_config.speech_command.t = "null"
        /\ (CfgField("audio_off").t # "bool" /\ pc \notin {"check_audio_off", "read_stdin"})
              => stdinRead

C8_Witness ==
    /\ Invoked
    /\ CfgField("audio_off").t = "num"
    /\ CfgField("speech_command").t = "str"
    /\ CfgField("speech_command").s = <<" ", "a", " ">>
    /\ user_config.speech_command.s = <<"a">>

C8_WitnessMissing ==
    configFile \in {Missing, Unreadable, EmptyText, Malformed} /\ Invoked

\* C9: a run exits 0 only when audio is disabled, or the event is not a
\* Notification, or the single invocation returned status zero; a failed
\* invocation never exits 0
C9_ExitZeroOnlyIf ==
    /\ (Exited /\ exit_code = 0) =>
          \/ CfgAudioOffTrue
          \/ InIsObject /\ ~InIsNotification
          \/ invocations = 1 /\ outcome = "returned_zero"
    /\ outcome \in {"returned_nonzero", "timeout", "launch_error"} =>
          (Exited /\ exit_code # 0)

C9_Witness ==
    /\ Exited
    /\ exit_code = 0
    /\ ~CfgAudioOffTrue
    /\ InIsNotification
    /\ invocations = 1
    /\ outcome = "returned_zero"

C9_WitnessFailed == Exited /\ outcome = "launch_error" /\ exit_code = 2

\* the check of main() that the inputs fail first, "none" when all pass
\* up to the resolution of the command
FirstFailure ==
    IF CfgAudioOffTrue THEN "audio_off"
    ELSE IF ~InIsJson THEN "json"
    ELSE IF ~InIsObject THEN "object"
    ELSE IF ~InIsNotification THEN "event"
    ELSE IF ~InMessageIsString THEN "message"
    ELSE "none"

\* C10: the checks run in the order audio_off, JSON, object, event kind,
\* message, resolution, dispatch, and the first failing one decides the
\* outcome; the process is invoked only when all of them passed, and the
\* path is probed only after the event and message checks passed and the
\* config gives no non-empty speech_command
C10_CheckOrder ==
    /\ Exited /\ FirstFailure = "audio_off" => exit_code = 0 /\ ~stdinRead
    /\ Exited /\ FirstFailure = "json" => exit_code = 2 /\ hook_data = JNull
    /\ Exited /\ FirstFailure = "object" => exit_code = 2
    /\ Exited /\ FirstFailure = "event" => exit_code = 0
    /\ Exited /\ FirstFailure = "message" => exit_code = 2
    /\ FirstFailure # "none" => ~Resolved /\ ~probed /\ invocations = 0
    /\ Exited /\ FirstFailure = "none" => Resolved
    /\ Exited /\ Resolved /\ speech_command.t # "str" =>
          exit_code = 2 /\ invocations = 0
    /\ invocations > 0 =>
          /\ FirstFailure = "none"
          /\ speech_command.t = "str"
          /\ stdinRead
    /\ probed => FirstFailure = "none" /\ ~CfgHasCommand /\ message.t = "str"
    /\ stdinRead => ~CfgAudioOffTrue

C10_Witness ==
    /\ probed
    /\ Invoked
    /\ FirstFailure = "none"
    /\ ~CfgHasCommand
    /\ onPath = {Candidates[3]}

C10_WitnessMessageBeforeResolve ==
    Exited /\ FirstFailure = "message" /\ ~CfgHasCommand /\ exit_code = 2 /\ ~probed

====
